---- MODULE Spec2Model ----
(***************************************************************************)
(* Intrusive reference counting: GCObject (count, incRef, decRef, virtual  *)
(* destroy), the two shape variants GCSingleObject / GCMultiObject, and    *)
(* the owning handle Ref<T>.                                               *)
(*                                                                         *)
(* Objects are numbered 1..MaxObj, NULL is the null pointer.  Handle       *)
(* instances are numbered: 1..MaxHandle are handles with automatic or      *)
(* static storage ("external" handles), MaxHandle + o is the Ref member of *)
(* object o when the type of o declares one.  In the programs with         *)
(* threads, thread t owns the handle it was started with, Given(t), and    *)
(* one handle it constructs itself, Local(t); SharedHandle is an instance  *)
(* that several threads use.                                               *)
(***************************************************************************)
EXTENDS Integers, Sequences, FiniteSets, TLC

MaxObj == 2
MaxHandle == 3
MaxElems == 2
MaxThreads == 2
MaxK == 4
MaxCount == 30
MaxWrites == 2

NULL == 0
Obj == 1..MaxObj
Ptr == Obj \cup {NULL}
ExtHandle == 1..MaxHandle
Thread == 1..MaxThreads
Given(t) == t
Local(t) == MaxThreads + t
SharedHandle == 2 * MaxThreads + 1
ThreadOf(h) == IF h <= MaxThreads THEN h ELSE h - MaxThreads
ThreadHandle == 1..(2 * MaxThreads)
Handle ==
  1..(IF MaxHandle + MaxObj > SharedHandle THEN MaxHandle + MaxObj
      ELSE SharedHandle)
\* Threads of the barrier program, and every thread there is.
Runner == 1..MaxK
AnyThread == Thread \cup Runner
MemberOf(o) == MaxHandle + o
Owner(h) == h - MaxHandle

\* The managed types a program declares.  shape: which variant the type
\* derives from; wide: sizeof(T) differs from sizeof(GCMultiObject);
\* member: T has a Ref<T> data member.
NoType == [shape |-> "none", wide |-> FALSE, member |-> FALSE]
TypeSingle == [shape |-> "single", wide |-> FALSE, member |-> FALSE]
TypeNode == [shape |-> "single", wide |-> FALSE, member |-> TRUE]
TypeArray == [shape |-> "multi", wide |-> FALSE, member |-> FALSE]
TypeWideArray == [shape |-> "multi", wide |-> TRUE, member |-> FALSE]

VARIABLES
  types,         \* the managed types of the program (fixed)
  otype,         \* otype[o]: type of object o, NoType before allocation
  elems,         \* elems[o]: number of elements allocated at o
  ref_count,     \* GCObject::ref_count of (the first element of) o
  destroyCalls,  \* number of destroy() invocations on o
  teardown,      \* number of element destructors run for o
  path,          \* "none" | "scalar" (delete this) | "array" (delete[] this)
  wrapped,       \* objects whose raw pointer has been handed to a handle
  ptr,           \* Ref::ptr of every handle instance
  hs,            \* "unborn" | "live" | "dead" per handle instance
  uaf,           \* objects whose count was accessed where no element is:
                 \* after destroy(), or in an array of zero elements
  released,      \* released[o]: holding handles released by ~Ref so far
  leaked,        \* objects of a two-object cycle left without outside handle
  lastOp,        \* the operation that produced the current state, with
                 \* the pointer its destination handle held before and
                 \* the objects it destroyed
  pc,            \* pc[t]: the step thread t is about to take
  shared,        \* handle instances that every thread can name
  sawOne,        \* sawOne[o]: threads whose fetch_sub on o returned 1
  destroyedBy,   \* destroyedBy[o]: threads that invoked destroy() on o
  kthreads,      \* number of threads of the barrier program
  reg,           \* reg[t]: the count as thread t read it (plain ++ / --)
  mutex,         \* thread inside the caller's critical section, 0 if none
  useLock,       \* the callers wrap incRef / decRef in a mutex (fixed)
  writes,        \* writes[o]: writes <<thread, number>> made to the payload of o
  known,         \* known[t]: writes that happen before the next step of t
  relSet         \* relSet[o]: writes that happen before the release
                 \* operations whose release sequences hold the count of o

vars == <<types, otype, elems, ref_count, destroyCalls, teardown, path,
          wrapped, ptr, hs, uaf, released, leaked, lastOp,
          pc, shared, sawOne, destroyedBy, kthreads, reg, mutex, useLock,
          writes, known, relSet>>
seqVars == <<types, otype, elems, wrapped, released, leaked, lastOp>>
raceVars == <<reg, mutex, useLock>>
orderVars == <<writes, known, relSet>>
concVars == <<pc, shared, sawOne, destroyedBy, kthreads, reg, mutex, useLock,
              writes, known, relSet>>

Min(a, b) == IF a < b THEN a ELSE b

(***************************************************************************)
(* The heap as a value, so that the operations compose as in the code.     *)
(***************************************************************************)
St == [rc |-> ref_count, dc |-> destroyCalls, td |-> teardown, path |-> path,
       ptr |-> ptr, hs |-> hs, uaf |-> uaf]

\* The count of o is the count of the first element at o: there is none
\* once destroy() has run, and none in an array of zero elements (new T[0]
\* returns a non-null pointer).
NoElement(s, o) == s.dc[o] > 0 \/ (otype[o].shape = "multi" /\ elems[o] = 0)

\* std::atomic<int>::fetch_add(1): the new heap (the old value is s.rc[o]).
FetchAdd(s, o) ==
  [s EXCEPT !.rc[o] = @ + 1,
            !.uaf = IF NoElement(s, o) THEN @ \cup {o} ELSE @]

\* std::atomic<int>::fetch_sub(1): the new heap (the old value is s.rc[o]).
FetchSub(s, o) ==
  [s EXCEPT !.rc[o] = @ - 1,
            !.uaf = IF NoElement(s, o) THEN @ \cup {o} ELSE @]

IncRef(s, o) == FetchAdd(s, o)

\* Element destructors run by the delete expression of destroy().  delete[]
\* through a GCMultiObject* walks the array with the stride of GCMultiObject:
\* when the element type is wider and there is more than one element its
\* behaviour is undefined, u is the number of destructors that get to run.
Events(o, u) ==
  IF otype[o].shape = "multi"
  THEN IF otype[o].wide /\ elems[o] > 1 THEN Min(u, elems[o]) ELSE elems[o]
  ELSE 1

DestroyPath(o) == IF otype[o].shape = "multi" THEN "array" ELSE "scalar"

RECURSIVE DecRef(_, _, _)
RECURSIVE Destroy(_, _, _)
RECURSIVE RefDtor(_, _, _)

\* ~Ref(): if (ptr) ptr->decRef();
RefDtor(s, h, u) ==
  LET s1 == [s EXCEPT !.hs[h] = "dead", !.ptr[h] = NULL]
  IN  IF s.ptr[h] # NULL THEN DecRef(s1, s.ptr[h], u) ELSE s1

\* destroy(): delete this / delete[] this, which runs the element
\* destructors and with them the destructor of a Ref member.
DestroyMutNoMemberDtor(s, o, u) ==
  [s EXCEPT !.dc[o] = @ + 1,
            !.td[o] = @ + Events(o, u),
            !.path[o] = DestroyPath(o)]

Destroy(s, o, u) ==
  LET s1 == [s EXCEPT !.dc[o] = @ + 1,
                      !.td[o] = @ + Events(o, u),
                      !.path[o] = DestroyPath(o)]
  IN  IF otype[o].member /\ s1.hs[MemberOf(o)] = "live"
      THEN RefDtor(s1, MemberOf(o), u) ELSE s1

\* The test of decRef on the value fetch_sub returned: == 1.
ObservedLastMutNewValue(old) == old = 0

ObservedLast(old) == old = 1

\* decRef(): if (ref_count.fetch_sub(1) == 1) destroy();
DecRefMutLate(s, o, u) ==
  LET s1 == FetchSub(s, o)
  IN  IF s.rc[o] = 0 THEN Destroy(s1, o, u) ELSE s1

DecRefMutEarly(s, o, u) ==
  LET s1 == FetchSub(s, o)
  IN  IF s.rc[o] = 2 THEN Destroy(s1, o, u) ELSE s1

DecRef(s, o, u) ==
  LET s1 == FetchSub(s, o)
  IN  IF ObservedLast(s.rc[o]) THEN Destroy(s1, o, u) ELSE s1

\* Ref(): ptr = nullptr
RefDefault(s, d) == [s EXCEPT !.ptr[d] = NULL, !.hs[d] = "live"]

\* explicit Ref(T* p) : ptr(p) { if (ptr) ptr->incRef(); }
RefFromRaw(s, d, p) ==
  LET s1 == [s EXCEPT !.ptr[d] = p, !.hs[d] = "live"]
  IN  IF p # NULL THEN IncRef(s1, p) ELSE s1

\* other.ptr as the running operation reads it: the value of a handle that
\* has been destroyed meanwhile is whatever its freed storage holds (g).
ReadPtr(s, h, g) == IF s.hs[h] = "live" THEN s.ptr[h] ELSE g

\* The heap after the running operation has touched handle h: a handle that
\* was destroyed meanwhile lies in the freed storage of its owner.
Touch(s, h) ==
  IF s.hs[h] = "live" THEN s ELSE [s EXCEPT !.uaf = @ \cup {Owner(h)}]

\* Ref(const Ref& other) : ptr(other.ptr) { if (ptr) ptr->incRef(); }
RefCopyCtorMutNoInc(s, d, o) ==
  [s EXCEPT !.ptr[d] = s.ptr[o], !.hs[d] = "live"]

RefCopyCtor(s, d, o) ==
  LET s1 == [s EXCEPT !.ptr[d] = s.ptr[o], !.hs[d] = "live"]
  IN  IF s1.ptr[d] # NULL THEN IncRef(s1, s1.ptr[d]) ELSE s1

\* Ref(Ref&& other) : ptr(other.ptr) { other.ptr = nullptr; }
RefMoveCtorMutKeepSource(s, d, o) ==
  [s EXCEPT !.ptr[d] = s.ptr[o], !.hs[d] = "live"]

RefMoveCtor(s, d, o) ==
  [s EXCEPT !.ptr[d] = s.ptr[o], !.hs[d] = "live", !.ptr[o] = NULL]

\* Ref& operator=(const Ref& other)
RefCopyAssignMutNoSelfCheck(s, d, o, u, g) ==
  LET s1 == IF s.ptr[d] # NULL THEN DecRef(s, s.ptr[d], u) ELSE s
      p  == ReadPtr(s1, o, g)
      s2 == [Touch(s1, o) EXCEPT !.ptr[d] = p]
  IN  IF p # NULL THEN IncRef(s2, p) ELSE s2

RefCopyAssignMutNoRelease(s, d, o, u, g) ==
  IF d = o THEN s
  ELSE LET p  == ReadPtr(s, o, g)
           s2 == [Touch(s, o) EXCEPT !.ptr[d] = p]
       IN  IF p # NULL THEN IncRef(s2, p) ELSE s2

RefCopyAssignMutSkipEmptySource(s, d, o, u, g) ==
  IF d = o \/ s.ptr[o] = NULL THEN s
  ELSE LET s1 == IF s.ptr[d] # NULL THEN DecRef(s, s.ptr[d], u) ELSE s
           p  == ReadPtr(s1, o, g)
           s2 == [Touch(s1, o) EXCEPT !.ptr[d] = p]
       IN  IF p # NULL THEN IncRef(s2, p) ELSE s2

RefCopyAssign(s, d, o, u, g) ==
  IF d = o THEN s
  ELSE LET s1 == IF s.ptr[d] # NULL THEN DecRef(s, s.ptr[d], u) ELSE s
           p  == ReadPtr(s1, o, g)
           s2 == [Touch(s1, o) EXCEPT !.ptr[d] = p]
       IN  IF p # NULL THEN IncRef(s2, p) ELSE s2

\* Ref& operator=(Ref&& other)
RefMoveAssignMutKeepSource(s, d, o, u, g) ==
  IF d = o THEN s
  ELSE LET s1 == IF s.ptr[d] # NULL THEN DecRef(s, s.ptr[d], u) ELSE s
           p  == ReadPtr(s1, o, g)
       IN  [Touch(s1, o) EXCEPT !.ptr[d] = p]

RefMoveAssign(s, d, o, u, g) ==
  IF d = o THEN s
  ELSE LET s1 == IF s.ptr[d] # NULL THEN DecRef(s, s.ptr[d], u) ELSE s
           p  == ReadPtr(s1, o, g)
       IN  [Touch(s1, o) EXCEPT !.ptr[d] = p,
                                !.ptr[o] = IF s1.hs[o] = "live" THEN NULL ELSE @]

(***************************************************************************)
(* What the program can name.                                              *)
(***************************************************************************)
Allocated(o) == otype[o].shape # "none"
Holding(h) == hs[h] = "live" /\ ptr[h] # NULL
Holders(o) == {h \in Handle : hs[h] = "live" /\ ptr[h] = o}

RECURSIVE ReachFrom(_)
ReachFrom(S) ==
  LET N == S \cup ({ptr[MemberOf(o)] : o \in {x \in S : hs[MemberOf(x)] = "live"}}
                   \ {NULL})
  IN  IF N = S THEN S ELSE ReachFrom(N)

Reach == ReachFrom({ptr[h] : h \in {x \in ExtHandle : hs[x] = "live"}} \ {NULL})

\* A handle the program can operate on: an external one, or the member of an
\* object it reaches through handles.
Accessible(h) ==
  /\ hs[h] = "live"
  /\ h \in ExtHandle \/ (Owner(h) \in Reach /\ destroyCalls[Owner(h)] = 0)

\* Raw pointers a handle may be constructed from: null, a fresh allocation
\* (the factory-to-handle handoff), or get() of a handle.
RawPointers ==
  {NULL} \cup {o \in Obj : Allocated(o) /\ o \notin wrapped}
         \cup {ptr[h] : h \in {x \in Handle : Accessible(x)}}

\* Handles and objects are numbered in the order of their construction.
FreshHandle(d) ==
  /\ d \in ExtHandle /\ hs[d] = "unborn"
  /\ \A h \in ExtHandle : h < d => hs[h] # "unborn"
FreshObj(o) == ~Allocated(o) /\ \A x \in Obj : x < o => Allocated(x)

\* Outcomes of undefined behaviour, drawn only where the program has any.
DeleteOutcomes ==
  IF \E o \in Obj : otype[o].wide /\ elems[o] > 1 THEN 0..MaxElems ELSE {0}
\* The source handle of an assignment d = o is destroyed by the decRef of the
\* old pointer of d: what is read from it afterwards is any pointer value.
SourceDies(d, o) ==
  /\ d # o /\ ptr[d] # NULL
  /\ DecRef(St, ptr[d], 0).hs[o] # "live"
Garbage(d, o) == IF SourceDies(d, o) THEN Ptr ELSE {NULL}

\* Two distinct live objects whose Ref members hold each other.
Cycle(x, y) ==
  /\ x # y
  /\ destroyCalls[x] = 0 /\ destroyCalls[y] = 0
  /\ hs[MemberOf(x)] = "live" /\ ptr[MemberOf(x)] = y
  /\ hs[MemberOf(y)] = "live" /\ ptr[MemberOf(y)] = x

NoOutsideHandle(x, y, p, st) ==
  \A h \in Handle \ {MemberOf(x), MemberOf(y)} :
     ~(st[h] = "live" /\ p[h] \in {x, y})

Commit(s) ==
  /\ ref_count' = s.rc
  /\ destroyCalls' = s.dc
  /\ teardown' = s.td
  /\ path' = s.path
  /\ ptr' = s.ptr
  /\ hs' = s.hs
  /\ uaf' = s.uaf

\* leaked: the cycles that were intact before an operation which names
\* neither member handle, and are without outside handle after it.
Ghost(op, d, src, s) ==
  /\ lastOp' = [op |-> op, d |-> d, s |-> src,
                old |-> IF d \in Handle THEN ptr[d] ELSE NULL,
                gone |-> {o \in Obj : s.dc[o] > destroyCalls[o]}]
  /\ leaked' = leaked \cup
       {x \in Obj : \E y \in Obj :
           /\ Cycle(x, y)
           /\ {d, src} \cap {MemberOf(x), MemberOf(y)} = {}
           /\ NoOutsideHandle(x, y, s.ptr, s.hs)}

\* A run is followed up to and including the operation in which storage is
\* first used after it was freed or outside an allocation: what the program
\* does after that is undefined.
Defined == uaf = {}

(***************************************************************************)
(* Operations of a single-threaded program.                                *)
(***************************************************************************)
\* GCObject::allocate<T>(args...) -> T::allocate_impl: new T(args...) or
\* new T[n]; the count starts at 0 and a Ref member starts empty.
Allocate(o, t, n) ==
  /\ Defined
  /\ FreshObj(o)
  /\ t \in types
  /\ n \in (IF t.shape = "multi" THEN 0..MaxElems ELSE {1})
  /\ otype' = [otype EXCEPT ![o] = t]
  /\ elems' = [elems EXCEPT ![o] = n]
  /\ LET s == IF t.member THEN RefDefault(St, MemberOf(o)) ELSE St
     IN  Commit([s EXCEPT !.rc[o] = 0]) /\ Ghost("allocate", 0, 0, s)
  /\ UNCHANGED <<types, wrapped, released>>
  /\ UNCHANGED concVars

ConstructDefault(d) ==
  /\ Defined
  /\ FreshHandle(d)
  /\ LET s == RefDefault(St, d) IN Commit(s) /\ Ghost("default", d, 0, s)
  /\ UNCHANGED <<types, otype, elems, wrapped, released>>
  /\ UNCHANGED concVars

ConstructFromRaw(d, p) ==
  /\ Defined
  /\ FreshHandle(d)
  /\ p \in RawPointers
  /\ LET s == RefFromRaw(St, d, p) IN Commit(s) /\ Ghost("raw", d, 0, s)
  /\ wrapped' = wrapped \cup ({p} \ {NULL})
  /\ UNCHANGED <<types, otype, elems, released>>
  /\ UNCHANGED concVars

CopyConstruct(d, o) ==
  /\ Defined
  /\ FreshHandle(d)
  /\ Accessible(o)
  /\ LET s == RefCopyCtor(St, d, o) IN Commit(s) /\ Ghost("copyctor", d, o, s)
  /\ UNCHANGED <<types, otype, elems, wrapped, released>>
  /\ UNCHANGED concVars

MoveConstruct(d, o) ==
  /\ Defined
  /\ FreshHandle(d)
  /\ Accessible(o)
  /\ LET s == RefMoveCtor(St, d, o) IN Commit(s) /\ Ghost("movector", d, o, s)
  /\ UNCHANGED <<types, otype, elems, wrapped, released>>
  /\ UNCHANGED concVars

CopyAssign(d, o) ==
  /\ Defined
  /\ Accessible(d) /\ Accessible(o)
  /\ \E u \in DeleteOutcomes, g \in Garbage(d, o) :
       LET s == RefCopyAssign(St, d, o, u, g)
       IN  Commit(s) /\ Ghost("copyassign", d, o, s)
  /\ UNCHANGED <<types, otype, elems, wrapped, released>>
  /\ UNCHANGED concVars

MoveAssign(d, o) ==
  /\ Defined
  /\ Accessible(d) /\ Accessible(o)
  /\ \E u \in DeleteOutcomes, g \in Garbage(d, o) :
       LET s == RefMoveAssign(St, d, o, u, g)
       IN  Commit(s) /\ Ghost("moveassign", d, o, s)
  /\ UNCHANGED <<types, otype, elems, wrapped, released>>
  /\ UNCHANGED concVars

\* Scope exit of an external handle.
Destruct(h) ==
  /\ Defined
  /\ h \in ExtHandle /\ hs[h] = "live"
  /\ \E u \in DeleteOutcomes :
       LET s == RefDtor(St, h, u) IN Commit(s) /\ Ghost("dtor", h, 0, s)
  /\ released' = IF ptr[h] # NULL THEN [released EXCEPT ![ptr[h]] = @ + 1]
                 ELSE released
  /\ UNCHANGED <<types, otype, elems, wrapped>>
  /\ UNCHANGED concVars

Next ==
  \/ \E o \in Obj, t \in types, n \in 0..MaxElems : Allocate(o, t, n)
  \/ \E d \in ExtHandle : ConstructDefault(d)
  \/ \E d \in ExtHandle, p \in Ptr : ConstructFromRaw(d, p)
  \/ \E d \in ExtHandle, o \in Handle : CopyConstruct(d, o)
  \/ \E d \in ExtHandle, o \in Handle : MoveConstruct(d, o)
  \/ \E d \in Handle, o \in Handle : CopyAssign(d, o)
  \/ \E d \in Handle, o \in Handle : MoveAssign(d, o)
  \/ \E h \in ExtHandle : Destruct(h)

InitHeap ==
  /\ otype = [o \in Obj |-> NoType]
  /\ elems = [o \in Obj |-> 0]
  /\ ref_count = [o \in Obj |-> 0]
  /\ destroyCalls = [o \in Obj |-> 0]
  /\ teardown = [o \in Obj |-> 0]
  /\ path = [o \in Obj |-> "none"]
  /\ wrapped = {}
  /\ ptr = [h \in Handle |-> NULL]
  /\ hs = [h \in Handle |-> "unborn"]
  /\ uaf = {}
  /\ released = [o \in Obj |-> 0]
  /\ leaked = {}
  /\ lastOp = [op |-> "init", d |-> 0, s |-> 0, old |-> NULL, gone |-> {}]

Idle == [k |-> "idle", o |-> NULL, d |-> 0, s |-> 0, cont |-> "none"]

InitNoLock ==
  /\ reg = [t \in AnyThread |-> 0]
  /\ mutex = 0
  /\ useLock = FALSE

InitNoWrites ==
  /\ writes = [o \in Obj |-> {}]
  /\ known = [t \in AnyThread |-> {}]
  /\ relSet = [o \in Obj |-> {}]

InitNoThreads ==
  /\ InitNoLock
  /\ InitNoWrites
  /\ pc = [t \in AnyThread |-> Idle]
  /\ shared = {}
  /\ sawOne = [o \in Obj |-> {}]
  /\ destroyedBy = [o \in Obj |-> {}]
  /\ kthreads = 0

\* Programs whose managed types hold no handles.
Init == InitHeap /\ InitNoThreads /\ types = {TypeSingle}
Spec == Init /\ [][Next]_vars

\* Programs that use both shape variants.
InitShape == InitHeap /\ InitNoThreads /\ types = {TypeSingle, TypeArray, TypeWideArray}
SpecShape == InitShape /\ [][Next]_vars

\* Programs whose objects hold a handle to another object.
InitGraph == InitHeap /\ InitNoThreads /\ types = {TypeNode}
SpecGraph == InitGraph /\ [][Next]_vars

(***************************************************************************)
(* Programs with threads.  Every access to a handle's ptr, every atomic    *)
(* operation on a count and every call of destroy() is a step of its own.  *)
(***************************************************************************)
Step(k, o, d, s, cont) == [k |-> k, o |-> o, d |-> d, s |-> s, cont |-> cont]
Quiescent == \A t \in AnyThread : pc[t].k = "idle"

\* Thread 1 is the one that modifies the shared instance.
Writer == 1
CanRead(t, h) == hs[h] = "live" /\ (h \in shared \/ (h \in ThreadHandle /\ ThreadOf(h) = t))
CanWrite(t, h) ==
  /\ hs[h] = "live"
  /\ (h \in shared /\ t = Writer) \/ (h \in ThreadHandle /\ ThreadOf(h) = t)

\* What follows the decRef of the old pointer in operator=, or incRef / decRef
\* in the barrier program.
After(p) ==
  CASE p.cont \in {"copy", "move"} -> Step("adopt", NULL, p.d, p.s, p.cont)
    [] p.cont = "barrier" -> Step("barrier", p.o, 0, 0, "none")
    [] OTHER -> Idle

\* The memory orders of the two operations on the count.
AddOrder == "relaxed"
SubOrderMutRelaxed == "relaxed"

SubOrder == "acq_rel"

Acquires(order) == order \in {"acquire", "acq_rel", "seq_cst"}
Releases(order) == order \in {"release", "acq_rel", "seq_cst"}

\* A read-modify-write of the count of o by thread t.  Every modification
\* of the count is a read-modify-write, so it continues the release sequence
\* of every earlier release operation: an acquire synchronizes with all of
\* them, a release adds what happens before it.
Sync(order, t, o) ==
  /\ known' = [known EXCEPT ![t] = IF Acquires(order) THEN @ \cup relSet[o] ELSE @]
  /\ relSet' = [relSet EXCEPT ![o] = IF Releases(order) THEN @ \cup known[t] ELSE @]
  /\ writes' = writes

\* Ref(const Ref& other) : ptr(other.ptr)
TCopyConstruct(t, s) ==
  /\ Defined /\ pc[t].k = "idle"
  /\ hs[Local(t)] = "unborn" /\ CanRead(t, s)
  /\ ptr' = [ptr EXCEPT ![Local(t)] = ptr[s]]
  /\ hs' = [hs EXCEPT ![Local(t)] = "live"]
  /\ pc' = [pc EXCEPT ![t] = IF ptr[s] # NULL
                             THEN Step("inc", ptr[s], 0, 0, "none") ELSE Idle]
  /\ UNCHANGED <<ref_count, destroyCalls, teardown, path, uaf>>
  /\ UNCHANGED <<shared, sawOne, destroyedBy, kthreads>>
  /\ UNCHANGED seqVars
  /\ UNCHANGED orderVars
  /\ UNCHANGED raceVars

\* incRef(): ref_count.fetch_add(1, relaxed)
TInc(t) ==
  /\ Defined /\ pc[t].k = "inc"
  /\ Commit(FetchAdd(St, pc[t].o))
  /\ Sync(AddOrder, t, pc[t].o)
  /\ pc' = [pc EXCEPT ![t] = After(pc[t])]
  /\ UNCHANGED <<shared, sawOne, destroyedBy, kthreads>>
  /\ UNCHANGED seqVars
  /\ UNCHANGED raceVars

\* Ref(Ref&& other) : ptr(other.ptr)
TMoveConstruct(t, s) ==
  /\ Defined /\ pc[t].k = "idle"
  /\ hs[Local(t)] = "unborn" /\ CanWrite(t, s)
  /\ ptr' = [ptr EXCEPT ![Local(t)] = ptr[s]]
  /\ hs' = [hs EXCEPT ![Local(t)] = "live"]
  /\ pc' = [pc EXCEPT ![t] = Step("clear", NULL, 0, s, "none")]
  /\ UNCHANGED <<ref_count, destroyCalls, teardown, path, uaf>>
  /\ UNCHANGED <<shared, sawOne, destroyedBy, kthreads>>
  /\ UNCHANGED seqVars
  /\ UNCHANGED orderVars
  /\ UNCHANGED raceVars

\* other.ptr = nullptr
TClear(t) ==
  /\ Defined /\ pc[t].k = "clear"
  /\ ptr' = [ptr EXCEPT ![pc[t].s] = NULL]
  /\ pc' = [pc EXCEPT ![t] = Idle]
  /\ UNCHANGED <<ref_count, destroyCalls, teardown, path, hs, uaf>>
  /\ UNCHANGED <<shared, sawOne, destroyedBy, kthreads>>
  /\ UNCHANGED seqVars
  /\ UNCHANGED orderVars
  /\ UNCHANGED raceVars

\* operator=: if (this == &other) return *this; if (ptr) ptr->decRef(); ...
AssignBegin(t, d, s, cont) ==
  /\ Defined /\ pc[t].k = "idle"
  /\ CanWrite(t, d)
  /\ IF cont = "move" THEN CanWrite(t, s) ELSE CanRead(t, s)
  /\ pc' = [pc EXCEPT ![t] =
              IF d = s THEN Idle
              ELSE IF ptr[d] # NULL THEN Step("dec", ptr[d], d, s, cont)
              ELSE Step("adopt", NULL, d, s, cont)]
  /\ UNCHANGED <<ref_count, destroyCalls, teardown, path, ptr, hs, uaf>>
  /\ UNCHANGED <<shared, sawOne, destroyedBy, kthreads>>
  /\ UNCHANGED seqVars
  /\ UNCHANGED orderVars
  /\ UNCHANGED raceVars

TCopyAssign(t, d, s) == AssignBegin(t, d, s, "copy")
TMoveAssign(t, d, s) == AssignBegin(t, d, s, "move")

\* ptr = other.ptr, then incRef (copy) or other.ptr = nullptr (move)
TAdopt(t) ==
  /\ Defined /\ pc[t].k = "adopt"
  /\ ptr' = [ptr EXCEPT ![pc[t].d] = ptr[pc[t].s]]
  /\ pc' = [pc EXCEPT ![t] =
              IF pc[t].cont = "move" THEN Step("clear", NULL, 0, pc[t].s, "none")
              ELSE IF ptr[pc[t].s] # NULL
                   THEN Step("inc", ptr[pc[t].s], 0, 0, "none")
              ELSE Idle]
  /\ UNCHANGED <<ref_count, destroyCalls, teardown, path, hs, uaf>>
  /\ UNCHANGED <<shared, sawOne, destroyedBy, kthreads>>
  /\ UNCHANGED seqVars
  /\ UNCHANGED orderVars
  /\ UNCHANGED raceVars

\* ~Ref(): if (ptr) ...
TDestruct(t, h) ==
  /\ Defined /\ pc[t].k = "idle"
  /\ CanWrite(t, h)
  /\ hs' = [hs EXCEPT ![h] = "dead"]
  /\ ptr' = [ptr EXCEPT ![h] = NULL]
  /\ pc' = [pc EXCEPT ![t] = IF ptr[h] # NULL
                             THEN Step("dec", ptr[h], 0, 0, "none") ELSE Idle]
  /\ UNCHANGED <<ref_count, destroyCalls, teardown, path, uaf>>
  /\ UNCHANGED <<shared, sawOne, destroyedBy, kthreads>>
  /\ UNCHANGED seqVars
  /\ UNCHANGED orderVars
  /\ UNCHANGED raceVars

\* decRef(): if (ref_count.fetch_sub(1, acq_rel) == 1)
TDec(t) ==
  /\ Defined /\ pc[t].k = "dec"
  /\ Commit(FetchSub(St, pc[t].o))
  /\ Sync(SubOrder, t, pc[t].o)
  /\ LET last == ObservedLast(ref_count[pc[t].o])
     IN  /\ pc' = [pc EXCEPT ![t] =
                     IF last THEN [pc[t] EXCEPT !.k = "destroy"]
                     ELSE After([pc[t] EXCEPT !.cont =
                                   IF @ = "barrier" THEN "none" ELSE @])]
         /\ sawOne' = IF ref_count[pc[t].o] = 1
                      THEN [sawOne EXCEPT ![pc[t].o] = @ \cup {t}] ELSE sawOne
  /\ UNCHANGED <<shared, destroyedBy, kthreads>>
  /\ UNCHANGED seqVars
  /\ UNCHANGED raceVars

\* destroy();
TDestroy(t) ==
  /\ Defined /\ pc[t].k = "destroy"
  /\ Commit(Destroy(St, pc[t].o, 0))
  /\ destroyedBy' = [destroyedBy EXCEPT ![pc[t].o] = @ \cup {t}]
  /\ pc' = [pc EXCEPT ![t] = After([pc[t] EXCEPT !.cont =
                                      IF @ = "barrier" THEN "none" ELSE @])]
  /\ UNCHANGED <<shared, sawOne, kthreads>>
  /\ UNCHANGED seqVars
  /\ UNCHANGED orderVars
  /\ UNCHANGED raceVars

NextThreads ==
  \/ \E t \in Thread, s \in Handle : TCopyConstruct(t, s)
  \/ \E t \in Thread, s \in Handle : TMoveConstruct(t, s)
  \/ \E t \in Thread, d \in Handle, s \in Handle : TCopyAssign(t, d, s)
  \/ \E t \in Thread, d \in Handle, s \in Handle : TMoveAssign(t, d, s)
  \/ \E t \in Thread, h \in Handle : TDestruct(t, h)
  \/ \E t \in Thread : TInc(t)
  \/ \E t \in Thread : TDec(t)
  \/ \E t \in Thread : TDestroy(t)
  \/ \E t \in Thread : TAdopt(t)
  \/ \E t \in Thread : TClear(t)

\* The heap after the main thread has wrapped object 1 and handed a copy of
\* the handle to every thread.
InitThreads ==
  /\ types = {TypeSingle}
  /\ otype = [o \in Obj |-> IF o = 1 THEN TypeSingle ELSE NoType]
  /\ elems = [o \in Obj |-> IF o = 1 THEN 1 ELSE 0]
  /\ ref_count = [o \in Obj |-> IF o = 1 THEN MaxThreads ELSE 0]
  /\ destroyCalls = [o \in Obj |-> 0]
  /\ teardown = [o \in Obj |-> 0]
  /\ path = [o \in Obj |-> "none"]
  /\ wrapped = {1}
  /\ ptr = [h \in Handle |-> IF h \in Thread THEN 1 ELSE NULL]
  /\ hs = [h \in Handle |-> IF h \in Thread THEN "live" ELSE "unborn"]
  /\ uaf = {}
  /\ released = [o \in Obj |-> 0]
  /\ leaked = {}
  /\ lastOp = [op |-> "init", d |-> 0, s |-> 0, old |-> NULL, gone |-> {}]
  /\ InitNoThreads

SpecThreads == InitThreads /\ [][NextThreads]_vars

\* The heap after the main thread has wrapped object 1 in the shared
\* instance and handed every thread a handle to object 2.
InitShared ==
  /\ types = {TypeSingle}
  /\ otype = [o \in Obj |-> IF o <= 2 THEN TypeSingle ELSE NoType]
  /\ elems = [o \in Obj |-> IF o <= 2 THEN 1 ELSE 0]
  /\ ref_count = [o \in Obj |-> IF o = 1 THEN 1
                               ELSE IF o = 2 THEN MaxThreads ELSE 0]
  /\ destroyCalls = [o \in Obj |-> 0]
  /\ teardown = [o \in Obj |-> 0]
  /\ path = [o \in Obj |-> "none"]
  /\ wrapped = {1, 2}
  /\ ptr = [h \in Handle |-> IF h \in Thread THEN 2
                            ELSE IF h = SharedHandle THEN 1 ELSE NULL]
  /\ hs = [h \in Handle |-> IF h \in Thread \/ h = SharedHandle
                           THEN "live" ELSE "unborn"]
  /\ uaf = {}
  /\ released = [o \in Obj |-> 0]
  /\ leaked = {}
  /\ lastOp = [op |-> "init", d |-> 0, s |-> 0, old |-> NULL, gone |-> {}]
  /\ pc = [t \in AnyThread |-> Idle]
  /\ shared = {SharedHandle}
  /\ sawOne = [o \in Obj |-> {}]
  /\ destroyedBy = [o \in Obj |-> {}]
  /\ kthreads = 0
  /\ InitNoLock
  /\ InitNoWrites

SpecShared == InitShared /\ [][NextThreads]_vars

(***************************************************************************)
(* The barrier program: K threads call incRef on a fresh object, wait for  *)
(* each other, and call decRef.                                            *)
(***************************************************************************)
TBarrierMutNoWait(t) ==
  /\ pc[t].k = "barrier"
  /\ pc' = [pc EXCEPT ![t] = Step("dec", pc[t].o, 0, 0, "none")]
  /\ UNCHANGED <<ref_count, destroyCalls, teardown, path, ptr, hs, uaf>>
  /\ UNCHANGED <<shared, sawOne, destroyedBy, kthreads>>
  /\ UNCHANGED seqVars
  /\ UNCHANGED orderVars
  /\ UNCHANGED raceVars

TBarrier(t) ==
  /\ pc[t].k = "barrier"
  /\ \A r \in 1..kthreads : pc[r].k # "inc"
  /\ pc' = [pc EXCEPT ![t] = Step("dec", pc[t].o, 0, 0, "none")]
  /\ UNCHANGED <<ref_count, destroyCalls, teardown, path, ptr, hs, uaf>>
  /\ UNCHANGED <<shared, sawOne, destroyedBy, kthreads>>
  /\ UNCHANGED seqVars
  /\ UNCHANGED orderVars
  /\ UNCHANGED raceVars

NextBarrier ==
  \/ \E t \in Runner : TInc(t)
  \/ \E t \in Runner : TBarrier(t)
  \/ \E t \in Runner : TDec(t)
  \/ \E t \in Runner : TDestroy(t)

InitBarrier ==
  /\ types = {TypeSingle}
  /\ otype = [o \in Obj |-> IF o = 1 THEN TypeSingle ELSE NoType]
  /\ elems = [o \in Obj |-> IF o = 1 THEN 1 ELSE 0]
  /\ ref_count = [o \in Obj |-> 0]
  /\ destroyCalls = [o \in Obj |-> 0]
  /\ teardown = [o \in Obj |-> 0]
  /\ path = [o \in Obj |-> "none"]
  /\ wrapped = {}
  /\ ptr = [h \in Handle |-> NULL]
  /\ hs = [h \in Handle |-> "unborn"]
  /\ uaf = {}
  /\ released = [o \in Obj |-> 0]
  /\ leaked = {}
  /\ lastOp = [op |-> "init", d |-> 0, s |-> 0, old |-> NULL, gone |-> {}]
  /\ kthreads \in 1..MaxK
  /\ pc = [t \in AnyThread |-> IF t <= kthreads
                               THEN Step("inc", 1, 0, 0, "barrier") ELSE Idle]
  /\ shared = {}
  /\ sawOne = [o \in Obj |-> {}]
  /\ destroyedBy = [o \in Obj |-> {}]
  /\ InitNoLock
  /\ InitNoWrites

SpecBarrier == InitBarrier /\ [][NextBarrier]_vars

(***************************************************************************)
(* Threads that also write to the payload of the object they hold.         *)
(***************************************************************************)
NumWrites == Cardinality(UNION {writes[o] : o \in Obj})

\* ref->field = value, through a handle of the thread
TWrite(t, h) ==
  /\ Defined /\ pc[t].k = "idle"
  /\ CanWrite(t, h) /\ ptr[h] # NULL
  /\ NumWrites < MaxWrites
  /\ LET w == <<t, NumWrites + 1>>
     IN  /\ writes' = [writes EXCEPT ![ptr[h]] = @ \cup {w}]
         /\ known' = [known EXCEPT ![t] = @ \cup {w}]
  /\ uaf' = IF destroyCalls[ptr[h]] > 0 THEN uaf \cup {ptr[h]} ELSE uaf
  /\ UNCHANGED <<ref_count, destroyCalls, teardown, path, ptr, hs, pc, relSet>>
  /\ UNCHANGED <<shared, sawOne, destroyedBy, kthreads>>
  /\ UNCHANGED seqVars
  /\ UNCHANGED raceVars

NextOrder ==
  \/ NextThreads
  \/ \E t \in Thread, h \in Handle : TWrite(t, h)

SpecOrder == InitThreads /\ [][NextOrder]_vars

(***************************************************************************)
(* The single-threaded variant used by several threads.  The count is a    *)
(* plain int: ++ref_count and --ref_count are a read followed by a write.  *)
(* With useLock the callers hold a mutex around every incRef and decRef.   *)
(***************************************************************************)
CanEnterMutNoLock(t) == TRUE

CanEnter(t) == useLock => mutex = 0

Enter(t) == IF useLock THEN t ELSE 0

\* A plain store to the count of o.
PlainStore(s, o, v) ==
  [s EXCEPT !.rc[o] = v,
            !.uaf = IF s.dc[o] > 0 THEN @ \cup {o} ELSE @]

\* incRef() { ++ref_count; }: the read
PIncRead(t) ==
  /\ Defined /\ pc[t].k = "inc"
  /\ CanEnter(t)
  /\ mutex' = Enter(t)
  /\ reg' = [reg EXCEPT ![t] = ref_count[pc[t].o]]
  /\ uaf' = IF destroyCalls[pc[t].o] > 0 THEN uaf \cup {pc[t].o} ELSE uaf
  /\ pc' = [pc EXCEPT ![t].k = "incw"]
  /\ UNCHANGED <<ref_count, destroyCalls, teardown, path, ptr, hs>>
  /\ UNCHANGED <<shared, sawOne, destroyedBy, kthreads, useLock>>
  /\ UNCHANGED seqVars
  /\ UNCHANGED orderVars

\* incRef() { ++ref_count; }: the write
PIncWrite(t) ==
  /\ Defined /\ pc[t].k = "incw"
  /\ Commit(PlainStore(St, pc[t].o, reg[t] + 1))
  /\ mutex' = 0
  /\ pc' = [pc EXCEPT ![t] = Idle]
  /\ UNCHANGED <<shared, sawOne, destroyedBy, kthreads, reg, useLock>>
  /\ UNCHANGED seqVars
  /\ UNCHANGED orderVars

\* decRef() { if (--ref_count == 0) destroy(); }: the read
PDecRead(t) ==
  /\ Defined /\ pc[t].k = "dec"
  /\ CanEnter(t)
  /\ mutex' = Enter(t)
  /\ reg' = [reg EXCEPT ![t] = ref_count[pc[t].o]]
  /\ uaf' = IF destroyCalls[pc[t].o] > 0 THEN uaf \cup {pc[t].o} ELSE uaf
  /\ pc' = [pc EXCEPT ![t].k = "decw"]
  /\ UNCHANGED <<ref_count, destroyCalls, teardown, path, ptr, hs>>
  /\ UNCHANGED <<shared, sawOne, destroyedBy, kthreads, useLock>>
  /\ UNCHANGED seqVars
  /\ UNCHANGED orderVars

\* decRef(): the write, and the test of the new value
PDecWrite(t) ==
  /\ Defined /\ pc[t].k = "decw"
  /\ Commit(PlainStore(St, pc[t].o, reg[t] - 1))
  /\ IF reg[t] - 1 = 0
     THEN pc' = [pc EXCEPT ![t].k = "destroy"] /\ mutex' = mutex
     ELSE pc' = [pc EXCEPT ![t] = Idle] /\ mutex' = 0
  /\ UNCHANGED <<shared, sawOne, destroyedBy, kthreads, reg, useLock>>
  /\ UNCHANGED seqVars
  /\ UNCHANGED orderVars

\* decRef(): destroy();
PDestroy(t) ==
  /\ Defined /\ pc[t].k = "destroy"
  /\ Commit(Destroy(St, pc[t].o, 0))
  /\ destroyedBy' = [destroyedBy EXCEPT ![pc[t].o] = @ \cup {t}]
  /\ mutex' = 0
  /\ pc' = [pc EXCEPT ![t] = Idle]
  /\ UNCHANGED <<shared, sawOne, kthreads, reg, useLock>>
  /\ UNCHANGED seqVars
  /\ UNCHANGED orderVars

NextPlain ==
  \/ \E t \in Thread, s \in Handle : TCopyConstruct(t, s)
  \/ \E t \in Thread, h \in Handle : TDestruct(t, h)
  \/ \E t \in Thread : PIncRead(t)
  \/ \E t \in Thread : PIncWrite(t)
  \/ \E t \in Thread : PDecRead(t)
  \/ \E t \in Thread : PDecWrite(t)
  \/ \E t \in Thread : PDestroy(t)

\* Every thread starts with its own handle to object 1; the program either
\* locks around every incRef / decRef or it does not.
InitPlain ==
  /\ types = {TypeSingle}
  /\ otype = [o \in Obj |-> IF o = 1 THEN TypeSingle ELSE NoType]
  /\ elems = [o \in Obj |-> IF o = 1 THEN 1 ELSE 0]
  /\ ref_count = [o \in Obj |-> IF o = 1 THEN MaxThreads ELSE 0]
  /\ destroyCalls = [o \in Obj |-> 0]
  /\ teardown = [o \in Obj |-> 0]
  /\ path = [o \in Obj |-> "none"]
  /\ wrapped = {1}
  /\ ptr = [h \in Handle |-> IF h \in Thread THEN 1 ELSE NULL]
  /\ hs = [h \in Handle |-> IF h \in Thread THEN "live" ELSE "unborn"]
  /\ uaf = {}
  /\ released = [o \in Obj |-> 0]
  /\ leaked = {}
  /\ lastOp = [op |-> "init", d |-> 0, s |-> 0, old |-> NULL, gone |-> {}]
  /\ pc = [t \in AnyThread |-> Idle]
  /\ shared = {}
  /\ sawOne = [o \in Obj |-> {}]
  /\ destroyedBy = [o \in Obj |-> {}]
  /\ kthreads = 0
  /\ reg = [t \in AnyThread |-> 0]
  /\ mutex = 0
  /\ useLock \in BOOLEAN
  /\ InitNoWrites

SpecPlain == InitPlain /\ [][NextPlain]_vars

(***************************************************************************)
(* incRef / decRef called directly, in one thread, on two objects: object  *)
(* Atomic has the atomic count of GCObject.h, object Plain the plain int   *)
(* of the single-threaded variant.  Every call is made on both.            *)
(***************************************************************************)
Atomic == 1
Plain == 2

\* void incRef() noexcept { ++ref_count; }
PlainIncRef(s, o) == PlainStore(s, o, s.rc[o] + 1)

\* void decRef() noexcept { if (--ref_count == 0) destroy(); }
PlainDecRefMutPostDecrement(s, o, u) ==
  LET s1 == PlainStore(s, o, s.rc[o] - 1)
  IN  IF s.rc[o] = 0 THEN Destroy(s1, o, u) ELSE s1

PlainDecRef(s, o, u) ==
  LET s1 == PlainStore(s, o, s.rc[o] - 1)
  IN  IF s1.rc[o] = 0 THEN Destroy(s1, o, u) ELSE s1

CallIncRef ==
  /\ Defined
  /\ ref_count[Atomic] < MaxCount
  /\ Commit(PlainIncRef(IncRef(St, Atomic), Plain))
  /\ lastOp' = [op |-> "incRef", d |-> 0, s |-> 0, old |-> NULL, gone |-> {}]
  /\ UNCHANGED <<types, otype, elems, wrapped, released, leaked>>
  /\ UNCHANGED concVars

CallDecRef ==
  /\ Defined
  /\ ref_count[Atomic] > -MaxCount
  /\ Commit(PlainDecRef(DecRef(St, Atomic, 0), Plain, 0))
  /\ lastOp' = [op |-> "decRef", d |-> 0, s |-> 0, old |-> NULL, gone |-> {}]
  /\ UNCHANGED <<types, otype, elems, wrapped, released, leaked>>
  /\ UNCHANGED concVars

NextCount == CallIncRef \/ CallDecRef

\* Two fresh objects, count 0, no handle.
InitCount ==
  /\ types = {TypeSingle}
  /\ otype = [o \in Obj |-> IF o \in {Atomic, Plain} THEN TypeSingle ELSE NoType]
  /\ elems = [o \in Obj |-> IF o \in {Atomic, Plain} THEN 1 ELSE 0]
  /\ ref_count = [o \in Obj |-> 0]
  /\ destroyCalls = [o \in Obj |-> 0]
  /\ teardown = [o \in Obj |-> 0]
  /\ path = [o \in Obj |-> "none"]
  /\ wrapped = {}
  /\ ptr = [h \in Handle |-> NULL]
  /\ hs = [h \in Handle |-> "unborn"]
  /\ uaf = {}
  /\ released = [o \in Obj |-> 0]
  /\ leaked = {}
  /\ lastOp = [op |-> "init", d |-> 0, s |-> 0, old |-> NULL, gone |-> {}]
  /\ InitNoThreads

SpecCount == InitCount /\ [][NextCount]_vars

(***************************************************************************)
(* Properties of single-threaded programs.                                 *)
(***************************************************************************)
AllExternalDead == \A h \in ExtHandle : hs[h] = "dead"

\* C1: destroy() is invoked on an object at most once, never while a holding
\* handle references the object, and exactly once as soon as the object has
\* been handed to a handle and its last holding handle has been released.
C1_DestroyExactlyOnce ==
  \A o \in Obj :
    /\ destroyCalls[o] <= 1
    /\ destroyCalls[o] >= 1 => Holders(o) = {}
    /\ (o \in wrapped /\ Holders(o) = {}) => destroyCalls[o] = 1

C1_Witness ==
  /\ lastOp.op = "dtor" /\ AllExternalDead
  /\ \E o \in Obj : destroyCalls[o] = 1 /\ released[o] >= 2

\* C2: between handle operations the count of every object that has not
\* been destroyed equals the number of holding handles that point to it,
\* and no count is negative.
C2_CountEqualsHolders ==
  \A o \in Obj :
    /\ ref_count[o] >= 0
    /\ (Allocated(o) /\ destroyCalls[o] = 0)
         => ref_count[o] = Cardinality(Holders(o))

C2_Witness ==
  \E o \in Obj, e \in ExtHandle :
    /\ destroyCalls[o] = 0 /\ ref_count[o] = 2
    /\ hs[e] = "live" /\ ptr[e] = NULL

\* C6: a release (~Ref) of a handle that holds o invokes destroy() on o
\* exactly when the handle is the last holder, i.e. when the release brings
\* the count to zero, and in no earlier release.
C6_LastReleaseDestroys ==
  [][lastOp'.op = "dtor" =>
       LET h == lastOp'.d
           o == ptr[h]
       IN  o # NULL =>
             /\ destroyCalls'[o] =
                  destroyCalls[o] + (IF Holders(o) = {h} THEN 1 ELSE 0)
             /\ (Holders(o) = {h}) <=> (ref_count[o] = 1)
             /\ ref_count'[o] = ref_count[o] - 1]_vars

C6_Witness ==
  /\ lastOp.op = "dtor"
  /\ \E o \in Obj : destroyCalls[o] = 1 /\ released[o] = MaxHandle

\* C7: move-constructing from a holding handle h, and move-assigning h into
\* an empty handle, changes no count, empties h and gives the destination
\* the pointer h held; destroying an empty (moved-from) handle changes no
\* count and destroys nothing; destroying the sole holder destroys the object.
C7_MoveTransfers ==
  [][LET d == lastOp'.d
         h == lastOp'.s
     IN  /\ (lastOp'.op = "movector" /\ ptr[h] # NULL) =>
               /\ ref_count' = ref_count /\ destroyCalls' = destroyCalls
               /\ hs'[h] = "live" /\ ptr'[h] = NULL
               /\ hs'[d] = "live" /\ ptr'[d] = ptr[h]
         /\ (lastOp'.op = "moveassign" /\ d # h /\ ptr[h] # NULL /\ ptr[d] = NULL) =>
               /\ ref_count' = ref_count /\ destroyCalls' = destroyCalls
               /\ hs'[h] = "live" /\ ptr'[h] = NULL
               /\ hs'[d] = "live" /\ ptr'[d] = ptr[h]
         /\ (lastOp'.op = "dtor" /\ ptr[d] = NULL) =>
               ref_count' = ref_count /\ destroyCalls' = destroyCalls
         /\ (lastOp'.op = "dtor" /\ ptr[d] # NULL /\ ref_count[ptr[d]] = 1) =>
               destroyCalls'[ptr[d]] = destroyCalls[ptr[d]] + 1]_vars

C7_Witness ==
  /\ lastOp.op = "movector"
  /\ ptr[lastOp.s] = NULL /\ hs[lastOp.s] = "live"
  /\ ptr[lastOp.d] # NULL /\ ref_count[ptr[lastOp.d]] = 1

\* C8: assigning a holding handle onto itself, by copy or by move, leaves
\* every pointer and every count as it was and destroys nothing.
C8_SelfAssignNoOp ==
  [][(lastOp'.op \in {"copyassign", "moveassign"}
        /\ lastOp'.d = lastOp'.s /\ ptr[lastOp'.d] # NULL) =>
       /\ ptr' = ptr /\ hs' = hs
       /\ ref_count' = ref_count /\ destroyCalls' = destroyCalls
       /\ uaf' = uaf]_vars

C8_Witness ==
  /\ lastOp.op \in {"copyassign", "moveassign"}
  /\ lastOp.d = lastOp.s
  /\ ptr[lastOp.d] # NULL /\ ref_count[ptr[lastOp.d]] = 1
  /\ destroyCalls[ptr[lastOp.d]] = 0

\* C9: an object is torn down through the path of its shape: one destructor
\* through delete for a single-shape object, one destructor per element
\* through delete[] for a multi-shape allocation.
C9_TeardownMatchesShape ==
  \A o \in Obj :
    destroyCalls[o] = 1 =>
      /\ otype[o].shape = "single" => (teardown[o] = 1 /\ path[o] = "scalar")
      /\ otype[o].shape = "multi" =>
           (teardown[o] = elems[o] /\ path[o] = "array")

\* C10: the objects of a reference cycle that has lost its last outside
\* handle keep a count of at least 1 and are never destroyed.
C10_CycleNeverFreed ==
  \A o \in leaked : ref_count[o] >= 1 /\ destroyCalls[o] = 0

C10_Witness == leaked # {} /\ AllExternalDead /\ lastOp.op = "dtor"

(***************************************************************************)
(* Properties of programs with threads.                                    *)
(***************************************************************************)
\* A handle in the middle of operator= has given up its old pointer once the
\* decRef has been issued, although ptr is rewritten only afterwards.
Releasing(h) ==
  \E t \in AnyThread : pc[t].k \in {"dec", "destroy", "adopt"} /\ pc[t].d = h
THolders(o) == {h \in Handle : hs[h] = "live" /\ ptr[h] = o /\ ~Releasing(h)}

\* C3: when every thread operates only on its own handles to one shared
\* object, then in every interleaving of the atomic steps the object is
\* destroyed exactly once (never twice, and once when all handles are gone),
\* only by the one thread whose fetch_sub returned 1, never while a handle
\* still holds it, and no count operation reaches a destroyed object.
C3_ThreadsDestroyOnce ==
  \A o \in Obj :
    /\ destroyCalls[o] <= 1
    /\ Cardinality(sawOne[o]) <= 1
    /\ destroyedBy[o] \subseteq sawOne[o]
    /\ destroyCalls[o] > 0 => THolders(o) = {}
    /\ o \notin uaf
    /\ (o \in wrapped /\ Quiescent /\ THolders(o) = {})
         => (destroyCalls[o] = 1 /\ destroyedBy[o] = sawOne[o]
             /\ Cardinality(destroyedBy[o]) = 1)

\* Both threads copied and moved their handle; the last release was made by
\* thread 2, which destroyed the object.
C3_Witness ==
  /\ Quiescent
  /\ \A h \in ThreadHandle : hs[h] = "dead"
  /\ destroyCalls[1] = 1
  /\ destroyedBy[1] = {2}
  /\ sawOne[1] = {2}

BarrierDone == kthreads >= 1 /\ \A t \in 1..kthreads : pc[t].k = "idle"

\* C4: K >= 1 threads increment a fresh object, wait for all increments,
\* and decrement: exactly one destroy() call occurs whatever K and whatever
\* the order of the increments and of the decrements.
C4_BarrierOneDestroy ==
  /\ destroyCalls[1] <= 1
  /\ uaf = {}
  /\ BarrierDone => (destroyCalls[1] = 1 /\ ref_count[1] = 0)

C4_Witness ==
  /\ kthreads = MaxK
  /\ BarrierDone
  /\ destroyCalls[1] = 1
  /\ destroyedBy[1] = {1}

\* C5: threads sharing one handle instance without locks: every object is
\* destroyed at most once, no incRef or decRef reaches a destroyed object,
\* and at quiescence a live object's count is the number of its holders.
C5_SharedRefSafe ==
  /\ \A o \in Obj : destroyCalls[o] <= 1
  /\ uaf = {}
  /\ Quiescent =>
       \A o \in wrapped :
         destroyCalls[o] = 0 => ref_count[o] = Cardinality(THolders(o))

\* C11: with the plain count and every incRef / decRef inside the callers'
\* critical section, the count equals the number of holders whenever no
\* operation is in progress, and destroy() runs exactly once, when the last
\* handle is gone; without the critical section a state with a destroyed
\* object that is still held is reachable.
C11_LockedPlainSafe ==
  useLock =>
    \A o \in Obj :
      /\ destroyCalls[o] <= 1
      /\ destroyCalls[o] > 0 => THolders(o) = {}
      /\ o \notin uaf
      /\ Quiescent =>
           /\ (o \in wrapped /\ destroyCalls[o] = 0)
                => ref_count[o] = Cardinality(THolders(o))
           /\ (o \in wrapped /\ THolders(o) = {}) => destroyCalls[o] = 1

\* A lost increment: the object is destroyed while a handle still holds it
\* and the count differs from the number of holders.
C11_Witness ==
  /\ ~useLock /\ Quiescent
  /\ destroyCalls[1] = 1
  /\ THolders(1) # {}
  /\ ref_count[1] # Cardinality(THolders(1))

\* C12: a decRef call lowers the count by exactly one and invokes destroy()
\* exactly when the new count is zero, whatever the count was before (never
\* from a count of zero or below); after every call of a sequence of incRef
\* and decRef calls the plain variant and the atomic variant have the same
\* count and have made the same destroy decision.
C12_DecRefVariantsAgree ==
  [][/\ lastOp'.op = "decRef" =>
          /\ ref_count'[Atomic] = ref_count[Atomic] - 1
          /\ destroyCalls'[Atomic] = destroyCalls[Atomic]
               + (IF ref_count'[Atomic] = 0 THEN 1 ELSE 0)
          /\ ref_count[Atomic] <= 0 => destroyCalls'[Atomic] = destroyCalls[Atomic]
     /\ lastOp'.op = "incRef" =>
          /\ ref_count'[Atomic] = ref_count[Atomic] + 1
          /\ destroyCalls'[Atomic] = destroyCalls[Atomic]
     /\ ref_count'[Plain] = ref_count'[Atomic]
     /\ destroyCalls'[Plain] = destroyCalls'[Atomic]
     /\ teardown'[Plain] = teardown'[Atomic]]_vars

\* decRef on a negative count, without destroy()
C12_Witness ==
  /\ lastOp.op = "decRef"
  /\ ref_count[Atomic] = -2 /\ ref_count[Plain] = -2
  /\ destroyCalls[Atomic] = 0

C14_SameObjectAssign ==
  [][LET a == lastOp'.d
         b == lastOp'.s
         o == ptr[a]
         mid == DecRef(St, o, 0)
     IN  (lastOp'.op \in {"copyassign", "moveassign"}
            /\ a # b /\ o # NULL /\ ptr[b] = o) =>
           /\ mid.rc[o] = ref_count[o] - 1 /\ mid.rc[o] >= 1
           /\ mid.dc[o] = 0
           /\ destroyCalls' = destroyCalls /\ destroyCalls'[o] = 0
           /\ ptr'[a] = o /\ hs' = hs
           /\ lastOp'.op = "copyassign" =>
                (ref_count' = ref_count /\ ptr' = ptr)
           /\ lastOp'.op = "moveassign" =>
                /\ ref_count'[o] = ref_count[o] - 1 /\ ref_count'[o] >= 1
                /\ ptr'[b] = NULL
           /\ uaf' = {}]_vars

\* a and b were the only two handles of the object; b was moved onto a.
C14_Witness ==
  /\ lastOp.op = "moveassign" /\ lastOp.d # lastOp.s
  /\ lastOp.old # NULL /\ ptr[lastOp.d] = lastOp.old
  /\ ptr[lastOp.s] = NULL /\ hs[lastOp.s] = "live"
  /\ ref_count[lastOp.old] = 1 /\ destroyCalls[lastOp.old] = 0

\* C15: a is the sole owner of X, the member handle m of X is the sole owner
\* of Y: after a = m, and after a = std::move(m), a holds Y, Y is not
\* destroyed and has count 1, X is destroyed exactly once, and m has not
\* been read after the destruction of X.
C15_AssignFromOwnMember ==
  [][LET a == lastOp'.d
         m == lastOp'.s
         X == ptr[a]
         Y == ptr[m]
     IN  (/\ lastOp'.op \in {"copyassign", "moveassign"}
          /\ a \in ExtHandle /\ X # NULL /\ m = MemberOf(X)
          /\ Holders(X) = {a} /\ ref_count[X] = 1
          /\ Y # NULL /\ Holders(Y) = {m} /\ ref_count[Y] = 1) =>
           /\ ptr'[a] = Y /\ hs'[a] = "live"
           /\ destroyCalls'[Y] = 0 /\ ref_count'[Y] = 1
           /\ destroyCalls'[X] = 1
           /\ uaf' = {}]_vars

\* The objects of the chain that starts at x, and the condition that it is a
\* chain: every object is alive with count 1, the first is held by a alone,
\* every other one by the member handle of a chain object alone.
ChainFrom(x) == ReachFrom({x})
IsChain(a, x) ==
  /\ Holders(x) = {a}
  /\ \A z \in ChainFrom(x) :
       /\ destroyCalls[z] = 0 /\ ref_count[z] = 1
       /\ hs[MemberOf(z)] = "live"
       /\ z # x => \E y \in ChainFrom(x) : Holders(z) = {MemberOf(y)}

\* C16: releasing the external handle that is the only owner of the head of
\* an acyclic chain destroys every object of the chain exactly once, each
\* through the destruction of the handle inside its predecessor, and leaves
\* none of them undestroyed.
C16_ChainTeardown ==
  [][LET a == lastOp'.d
         x == ptr[a]
     IN  (lastOp'.op = "dtor" /\ x # NULL /\ IsChain(a, x)) =>
           /\ \A z \in ChainFrom(x) :
                /\ destroyCalls'[z] = 1 /\ teardown'[z] = 1
                /\ ref_count'[z] = 0
                /\ hs'[MemberOf(z)] = "dead"
           /\ lastOp'.gone = ChainFrom(x)
           /\ \A z \in Obj \ ChainFrom(x) :
                destroyCalls'[z] = destroyCalls[z] /\ ref_count'[z] = ref_count[z]
           /\ uaf' = {}]_vars

\* One release destroyed a chain of MaxObj objects.
C16_Witness ==
  /\ lastOp.op = "dtor"
  /\ lastOp.gone = Obj
  /\ \A z \in Obj : destroyCalls[z] = 1 /\ hs[MemberOf(z)] = "dead"
  /\ released[lastOp.old] = 1
  /\ \A z \in Obj \ {lastOp.old} : released[z] = 0

\* An operation changed no count and destroyed nothing.
NoCountEffect ==
  /\ ref_count' = ref_count /\ destroyCalls' = destroyCalls
  /\ teardown' = teardown /\ uaf' = uaf

\* C17: operations on empty handles only (default construction, construction
\* from a null pointer, copy / move construction from an empty handle,
\* assignment of an empty handle to an empty handle, destruction of an empty
\* handle) change no count, destroy nothing and end with an empty handle;
\* assigning an empty handle onto a holding handle releases the object that
\* was held with one decrement and leaves the destination empty.
C17_EmptyHandles ==
  [][LET d == lastOp'.d
         s == lastOp'.s
         X == lastOp'.old
     IN  /\ lastOp'.op = "default" =>
              (NoCountEffect /\ hs'[d] = "live" /\ ptr'[d] = NULL)
         /\ (lastOp'.op = "raw" /\ ptr'[d] = NULL) =>
              (NoCountEffect /\ hs'[d] = "live")
         /\ (lastOp'.op \in {"copyctor", "movector"} /\ ptr[s] = NULL) =>
              /\ NoCountEffect
              /\ hs'[d] = "live" /\ ptr'[d] = NULL
              /\ hs'[s] = "live" /\ ptr'[s] = NULL
         /\ (lastOp'.op \in {"copyassign", "moveassign"}
               /\ ptr[s] = NULL /\ X = NULL) =>
              (NoCountEffect /\ ptr' = ptr /\ hs' = hs)
         /\ (lastOp'.op = "dtor" /\ X = NULL) =>
              (NoCountEffect /\ hs'[d] = "dead")
         /\ (lastOp'.op \in {"copyassign", "moveassign"}
               /\ ptr[s] = NULL /\ X # NULL) =>
              /\ ref_count'[X] = ref_count[X] - 1
              /\ destroyCalls'[X] =
                   destroyCalls[X] + (IF ref_count[X] = 1 THEN 1 ELSE 0)
              /\ hs' = hs /\ ptr'[d] = NULL /\ ptr'[s] = NULL
              /\ \A z \in Obj \ {X} :
                   ref_count'[z] = ref_count[z] /\ destroyCalls'[z] = destroyCalls[z]
              /\ uaf' = {}]_vars

\* An empty handle was copy-assigned onto the last owner of an object.
C17_Witness ==
  /\ lastOp.op = "copyassign" /\ lastOp.d # lastOp.s
  /\ lastOp.old # NULL /\ lastOp.gone = {lastOp.old}
  /\ hs[lastOp.d] = "live" /\ ptr[lastOp.d] = NULL
  /\ hs[lastOp.s] = "live" /\ ptr[lastOp.s] = NULL
  /\ ref_count[lastOp.old] = 0

\* C18: a multi-shape allocation of zero elements that is wrapped in a
\* handle and released produces no teardown event, and neither the wrap nor
\* the release reads or writes a count, there being no element.
C18_ZeroLengthUntouched ==
  \A o \in Obj :
    (otype[o].shape = "multi" /\ elems[o] = 0) =>
      /\ ref_count[o] = 0
      /\ teardown[o] = 0
      /\ o \notin uaf

\* C19: every write a thread made to the payload of an object before its
\* decRef happens before the destroy() call: the thread whose fetch_sub saw
\* the count go to zero has synchronized with every earlier decrement.
C19_WritesVisibleAtDestroy ==
  \A t \in Thread :
    pc[t].k = "destroy" => writes[pc[t].o] \subseteq known[t]

\* Thread 1 is about to destroy the object after MaxWrites writes, one of
\* them made by thread 2.
C19_Witness ==
  /\ pc[1].k = "destroy"
  /\ Cardinality(writes[pc[1].o]) = MaxWrites
  /\ \E w \in writes[pc[1].o] : w[1] = 2

====
